---- MODULE Spec2Model ----
(***************************************************************************)
(* GeminiDirector: a browsable reference catalog (KNOWLEDGE_BASE) with an  *)
(* access log.  The model covers the App component's state and handlers    *)
(* (src/App.tsx), the log record constructor createLog and the catalog     *)
(* data (src/unnamed/part_001), and the lookup getDocById of the data      *)
(* access layer (src/unnamed/part_000).                                    *)
(*                                                                         *)
(* JavaScript strings that the code inspects character by character        *)
(* (titles, categories, identifiers, search terms, messages, trace ids)    *)
(* are sequences of one-character strings.                                 *)
(***************************************************************************)
EXTENDS Integers, Sequences, FiniteSets, TLC

VARIABLES
  mounted,     \* "constructed" (first render done, effect pending), "mounted"
               \* (effect run), "crashed" (a render failed)
  activeDoc,   \* useState<ReferenceDoc>(KNOWLEDGE_BASE[0])
  logs,        \* useState<TrafficLog[]>([]): the log as last rendered
  searchTerm,  \* useState('')
  sortAlpha,   \* useState(false)
  queue,       \* setLogs updates enqueued and not yet processed by a render
  heap,        \* caller-owned mutable objects that payload arguments refer to
  clock,       \* the wall clock Date.now() reads
  calls,       \* history: the addLog calls issued since the last clearLogs call
  failedCaptures, \* history: the addLog calls whose createLog threw
  clipboard,   \* what the last event handled did at navigator.clipboard:
               \* nothing, a call of writeText with a content, or an access
               \* that threw
  entries,     \* the array handed to the sort or to the lookup
  sorted,      \* what the sort returned
  catalogRefs, \* the module-level array KNOWLEDGE_BASE: for each position,
               \* the entry object it holds, numbered as written in the source
  found,       \* what the lookup returned
  clipboardApi, \* the browsing context: whether navigator.clipboard is defined
  cryptoApi,   \* the browsing context: whether crypto.randomUUID is defined
  locale,      \* the host: the default locale, which decides the collation
  invokedAt,   \* history: the clock reading at each addLog call issued since
               \* the last clearLogs call and not yet processed by a render
  reported     \* history: the number of addLog calls the App's mount effect
               \* and handlers have issued

vars == <<mounted, activeDoc, logs, searchTerm, sortAlpha, queue, heap, clock,
          calls, failedCaptures, clipboard, entries, sorted, catalogRefs,
          found, clipboardApi, cryptoApi, locale, invokedAt, reported>>

(***************************************************************************)
(* Bounds of the model.                                                    *)
(***************************************************************************)
MaxLogs == 2      \* App: addLog calls of the mount effect and the handlers
MaxCalls == 2     \* log engine: addLog calls per session
MaxEntries == 3   \* sort harness: length of the sorted sequence

(***************************************************************************)
(* Strings.                                                                *)
(***************************************************************************)
UpperCaseLetters ==
  <<"A","B","C","D","E","F","G","H","I","J","K","L","M",
    "N","O","P","Q","R","S","T","U","V","W","X","Y","Z">>

LowerCaseLetters ==
  <<"a","b","c","d","e","f","g","h","i","j","k","l","m",
    "n","o","p","q","r","s","t","u","v","w","x","y","z">>

IsUpper(c) == \E i \in 1..Len(UpperCaseLetters) : UpperCaseLetters[i] = c

IsLower(c) == \E i \in 1..Len(LowerCaseLetters) : LowerCaseLetters[i] = c

\* The characters of the strings that are lower-cased and compared.
Alphabet ==
  {UpperCaseLetters[i] : i \in 1..Len(UpperCaseLetters)}
    \cup {LowerCaseLetters[i] : i \in 1..Len(LowerCaseLetters)}
    \cup {" ", "-", "(", ")", "0", "1", "2", "3", "4", "5", "6", "7", "8", "9"}

LowerCaseOf ==
  [c \in Alphabet |->
     IF IsUpper(c)
     THEN LowerCaseLetters[CHOOSE i \in 1..Len(UpperCaseLetters) : UpperCaseLetters[i] = c]
     ELSE c]

\* String.prototype.toLowerCase on one character.
lowerChar(c) == LowerCaseOf[c]

\* String.prototype.toLowerCase.
toLowerCase(s) == [i \in 1..Len(s) |-> lowerChar(s[i])]

\* String.prototype.includes: some position of s starts a copy of t.
includes(s, t) ==
  \E k \in 0..(Len(s) - Len(t)) : SubSeq(s, k + 1, k + Len(t)) = t

(***************************************************************************)
(* The catalog.                                                            *)
(***************************************************************************)
KNOWLEDGE_BASE ==
  <<
    \* client-initialization / SETUP / Client Initialization
    [id |-> <<"c","l","i","e","n","t","-","i","n","i","t","i","a","l","i","z","a","t","i","o","n">>,
     category |-> <<"S","E","T","U","P">>,
     title |-> <<"C","l","i","e","n","t"," ","I","n","i","t","i","a","l","i","z","a","t","i","o","n">>,
     launch |-> [required_params |-> <<"apiKey">>, optional_params |-> <<>>]],
    \* system-instruction / SETUP / System Instructions
    [id |-> <<"s","y","s","t","e","m","-","i","n","s","t","r","u","c","t","i","o","n">>,
     category |-> <<"S","E","T","U","P">>,
     title |-> <<"S","y","s","t","e","m"," ","I","n","s","t","r","u","c","t","i","o","n","s">>,
     launch |-> [required_params |-> <<"systemInstruction">>, optional_params |-> <<>>]],
    \* text-generation / CORE / Text Generation
    [id |-> <<"t","e","x","t","-","g","e","n","e","r","a","t","i","o","n">>,
     category |-> <<"C","O","R","E">>,
     title |-> <<"T","e","x","t"," ","G","e","n","e","r","a","t","i","o","n">>,
     launch |-> [required_params |-> <<"model", "contents">>, optional_params |-> <<"config">>]],
    \* chat-session / CORE / Chat Session
    [id |-> <<"c","h","a","t","-","s","e","s","s","i","o","n">>,
     category |-> <<"C","O","R","E">>,
     title |-> <<"C","h","a","t"," ","S","e","s","s","i","o","n">>,
     launch |-> [required_params |-> <<"model">>, optional_params |-> <<"config", "history">>]],
    \* streaming-content / CORE / Streaming Responses
    [id |-> <<"s","t","r","e","a","m","i","n","g","-","c","o","n","t","e","n","t">>,
     category |-> <<"C","O","R","E">>,
     title |-> <<"S","t","r","e","a","m","i","n","g"," ","R","e","s","p","o","n","s","e","s">>,
     launch |-> [required_params |-> <<"model", "contents">>, optional_params |-> <<"config">>]],
    \* multimodal-input / MULTIMODAL / Multimodal Input (Vision)
    [id |-> <<"m","u","l","t","i","m","o","d","a","l","-","i","n","p","u","t">>,
     category |-> <<"M","U","L","T","I","M","O","D","A","L">>,
     title |-> <<"M","u","l","t","i","m","o","d","a","l"," ","I","n","p","u","t"," ","(","V","i","s","i","o","n",")">>,
     launch |-> [required_params |-> <<"model", "contents.parts">>, optional_params |-> <<"config">>]],
    \* image-generation / MULTIMODAL / Image Generation
    [id |-> <<"i","m","a","g","e","-","g","e","n","e","r","a","t","i","o","n">>,
     category |-> <<"M","U","L","T","I","M","O","D","A","L">>,
     title |-> <<"I","m","a","g","e"," ","G","e","n","e","r","a","t","i","o","n">>,
     launch |-> [required_params |-> <<"model", "contents">>, optional_params |-> <<"config.imageConfig">>]],
    \* audio-input / MULTIMODAL / Audio Analysis
    [id |-> <<"a","u","d","i","o","-","i","n","p","u","t">>,
     category |-> <<"M","U","L","T","I","M","O","D","A","L">>,
     title |-> <<"A","u","d","i","o"," ","A","n","a","l","y","s","i","s">>,
     launch |-> [required_params |-> <<"model", "contents.parts">>, optional_params |-> <<"config">>]],
    \* text-to-speech / MULTIMODAL / Text-to-Speech
    [id |-> <<"t","e","x","t","-","t","o","-","s","p","e","e","c","h">>,
     category |-> <<"M","U","L","T","I","M","O","D","A","L">>,
     title |-> <<"T","e","x","t","-","t","o","-","S","p","e","e","c","h">>,
     launch |-> [required_params |-> <<"model", "contents", "config.responseModalities">>, optional_params |-> <<"config.speechConfig">>]],
    \* video-generation / MULTIMODAL / Video Generation (Veo)
    [id |-> <<"v","i","d","e","o","-","g","e","n","e","r","a","t","i","o","n">>,
     category |-> <<"M","U","L","T","I","M","O","D","A","L">>,
     title |-> <<"V","i","d","e","o"," ","G","e","n","e","r","a","t","i","o","n"," ","(","V","e","o",")">>,
     launch |-> [required_params |-> <<"model", "prompt">>, optional_params |-> <<"config.resolution", "config.aspectRatio">>]],
    \* json-schema / SCHEMAS / JSON Structured Output (Array)
    [id |-> <<"j","s","o","n","-","s","c","h","e","m","a">>,
     category |-> <<"S","C","H","E","M","A","S">>,
     title |-> <<"J","S","O","N"," ","S","t","r","u","c","t","u","r","e","d"," ","O","u","t","p","u","t"," ","(","A","r","r","a","y",")">>,
     launch |-> [required_params |-> <<"config.responseMimeType", "config.responseSchema">>, optional_params |-> <<>>]],
    \* json-object-schema / SCHEMAS / JSON Structured Output (Object)
    [id |-> <<"j","s","o","n","-","o","b","j","e","c","t","-","s","c","h","e","m","a">>,
     category |-> <<"S","C","H","E","M","A","S">>,
     title |-> <<"J","S","O","N"," ","S","t","r","u","c","t","u","r","e","d"," ","O","u","t","p","u","t"," ","(","O","b","j","e","c","t",")">>,
     launch |-> [required_params |-> <<"config.responseMimeType", "config.responseSchema">>, optional_params |-> <<>>]],
    \* function-calling / ADVANCED / Function Calling
    [id |-> <<"f","u","n","c","t","i","o","n","-","c","a","l","l","i","n","g">>,
     category |-> <<"A","D","V","A","N","C","E","D">>,
     title |-> <<"F","u","n","c","t","i","o","n"," ","C","a","l","l","i","n","g">>,
     launch |-> [required_params |-> <<"config.tools">>, optional_params |-> <<"config.toolConfig">>]],
    \* search-grounding / ADVANCED / Google Search Grounding
    [id |-> <<"s","e","a","r","c","h","-","g","r","o","u","n","d","i","n","g">>,
     category |-> <<"A","D","V","A","N","C","E","D">>,
     title |-> <<"G","o","o","g","l","e"," ","S","e","a","r","c","h"," ","G","r","o","u","n","d","i","n","g">>,
     launch |-> [required_params |-> <<"config.tools.googleSearch">>, optional_params |-> <<>>]],
    \* thinking-budget / ADVANCED / Thinking Budget
    [id |-> <<"t","h","i","n","k","i","n","g","-","b","u","d","g","e","t">>,
     category |-> <<"A","D","V","A","N","C","E","D">>,
     title |-> <<"T","h","i","n","k","i","n","g"," ","B","u","d","g","e","t">>,
     launch |-> [required_params |-> <<"config.thinkingConfig.thinkingBudget">>, optional_params |-> <<>>]]
  >>

\* The array as the module builds it: position i holds the i-th entry.
InitialRefs == [i \in DOMAIN KNOWLEDGE_BASE |-> i]

\* The entries the array KNOWLEDGE_BASE holds now, in its order.
catalog == [i \in DOMAIN catalogRefs |-> KNOWLEDGE_BASE[catalogRefs[i]]]

\* The enumeration without its last member.
DocCategoryWithoutSchemas ==
  { <<"S","E","T","U","P">>, <<"C","O","R","E">>,
    <<"M","U","L","T","I","M","O","D","A","L">>,
    <<"A","D","V","A","N","C","E","D">> }

DocCategory ==
  { <<"S","E","T","U","P">>, <<"C","O","R","E">>,
    <<"M","U","L","T","I","M","O","D","A","L">>,
    <<"A","D","V","A","N","C","E","D">>, <<"S","C","H","E","M","A","S">> }

(***************************************************************************)
(* Filter and sort (App.tsx, "Logic").                                     *)
(***************************************************************************)
\* The predicate of KNOWLEDGE_BASE.filter for the search term st.
matchesTerm(doc, st) ==
  LET term == toLowerCase(st)
  IN  \/ includes(toLowerCase(doc.title), term)
      \/ includes(toLowerCase(doc.category), term)
      \/ includes(toLowerCase(doc.id), term)

\* A filter that forgets the identifier.
filterDocsNoId(docs, st) ==
  SelectSeq(docs, LAMBDA doc :
    LET term == toLowerCase(st)
    IN  \/ includes(toLowerCase(doc.title), term)
        \/ includes(toLowerCase(doc.category), term))

\* A filter that lists the matches last to first.
RECURSIVE filterDocsReversed(_, _)
filterDocsReversed(docs, st) ==
  IF docs = <<>> THEN <<>>
  ELSE filterDocsReversed(Tail(docs), st)
         \o (IF matchesTerm(Head(docs), st) THEN <<Head(docs)>> ELSE <<>>)

\* Array.prototype.filter with the predicate above: the matches, in order.
filterDocs(docs, st) == SelectSeq(docs, LAMBDA doc : matchesTerm(doc, st))


(***************************************************************************)
(* String.prototype.localeCompare, for the characters below.  Called with  *)
(* one argument, as the code calls it, it compares in the collation of the *)
(* host's default locale.  A string is taken as a sequence of collation    *)
(* elements, one for each letter, where a collation can take two           *)
(* characters as one letter.  An element has a primary weight (the         *)
(* letter), a secondary weight (a variant of the letter) and a tertiary    *)
(* weight (its case).  The primary weights decide, element by element, a   *)
(* proper prefix before its extensions; strings equal in their primary     *)
(* weights are decided by the first element where the secondary weights    *)
(* differ, and failing that by the first where the tertiary weights        *)
(* differ.                                                                 *)
(*                                                                         *)
(* "root" is the order of the locales without a tailoring for these        *)
(* characters (en-US, de-DE, fr-FR among them): white space before         *)
(* punctuation before digits before letters, a lower-case letter before    *)
(* its upper-case form.  The other locales of the model stand for the      *)
(* tailored collations known to place titles of the catalog or of the      *)
(* sort harness otherwise:                                                 *)
(*   "cs"  (Czech, Slovak alike) ch is a letter, after h;                  *)
(*   "da"  (Danish) an upper-case letter before its lower-case form, and   *)
(*         aa is a letter, after z;                                        *)
(*   "nb"  (Norwegian Bokmal and Nynorsk, Faroese alike) aa is a letter,   *)
(*         after z, a lower-case letter before its upper-case form;        *)
(*   "mt"  (Maltese) an upper-case letter before its lower-case form;      *)
(*   "et"  (Estonian) z after s and before t;                              *)
(*   "lt"  (Lithuanian, Latvian alike) y is a variant of i;                *)
(*   "cy"  (Welsh) ch, dd, ff, ng, ll, ph, rh and th are letters, each     *)
(*         after the letter it begins with (ng after g);                   *)
(*   "haw" (Hawaiian) the vowels a, e, i, o, u before the consonants;      *)
(*   "uz"  (Uzbek; Oromo alike for ch) sh and ch are letters, after z.     *)
(***************************************************************************)
Locales == {"root", "cs", "da", "nb", "mt", "et", "lt", "cy", "haw", "uz"}

\* White space, punctuation and digits, in the order every collation of
\* the model gives them.
SymbolOrder ==
  <<" ","-","(",")","0","1","2","3","4","5","6","7","8","9">>

\* The letters of a collation in its order; a letter of two characters is
\* named by the two.
LetterOrder(loc) ==
  CASE loc = "cs" ->
         <<"a","b","c","d","e","f","g","h","ch","i","j","k","l","m",
           "n","o","p","q","r","s","t","u","v","w","x","y","z">>
    [] loc \in {"da", "nb"} ->
         <<"a","b","c","d","e","f","g","h","i","j","k","l","m",
           "n","o","p","q","r","s","t","u","v","w","x","y","z","aa">>
    [] loc = "et" ->
         <<"a","b","c","d","e","f","g","h","i","j","k","l","m",
           "n","o","p","q","r","s","z","t","u","v","w","x","y">>
    [] loc = "lt" ->
         <<"a","b","c","d","e","f","g","h","i","j","k","l","m",
           "n","o","p","q","r","s","t","u","v","w","x","z">>
    [] loc = "cy" ->
         <<"a","b","c","ch","d","dd","e","f","ff","g","ng","h","i","j","k",
           "l","ll","m","n","o","p","ph","q","r","rh","s","t","th","u","v",
           "w","x","y","z">>
    [] loc = "haw" ->
         <<"a","e","i","o","u","b","c","d","f","g","h","j","k","l","m",
           "n","p","q","r","s","t","v","w","x","y","z">>
    [] loc = "uz" ->
         <<"a","b","c","d","e","f","g","h","i","j","k","l","m",
           "n","o","p","q","r","s","t","u","v","w","x","y","z","sh","ch">>
    [] OTHER ->
         <<"a","b","c","d","e","f","g","h","i","j","k","l","m",
           "n","o","p","q","r","s","t","u","v","w","x","y","z">>

CollationOrder(loc) == SymbolOrder \o LetterOrder(loc)

\* The letters of two characters that some collation has, each with its
\* characters.
Digraphs ==
  [name \in {"aa", "ch", "dd", "ff", "ll", "ng", "ph", "rh", "sh", "th"} |->
     CASE name = "aa" -> <<"a","a">>
       [] name = "ch" -> <<"c","h">>
       [] name = "dd" -> <<"d","d">>
       [] name = "ff" -> <<"f","f">>
       [] name = "ll" -> <<"l","l">>
       [] name = "ng" -> <<"n","g">>
       [] name = "ph" -> <<"p","h">>
       [] name = "rh" -> <<"r","h">>
       [] name = "sh" -> <<"s","h">>
       [] name = "th" -> <<"t","h">>]

\* The place of each letter in the order of each collation.
PrimaryWeightOf ==
  [key \in Locales \X (Alphabet \cup DOMAIN Digraphs) |->
     LET order == CollationOrder(key[1])
     IN  IF \E i \in 1..Len(order) : order[i] = key[2]
         THEN CHOOSE i \in 1..Len(order) : order[i] = key[2]
         ELSE 0] @@ <<>>

\* The letter the character c stands for: Lithuanian y is the letter i.
letterOf(c, loc) ==
  IF loc = "lt" /\ lowerChar(c) = "y" THEN "i" ELSE lowerChar(c)

primaryWeight(c, loc) == PrimaryWeightOf[<<loc, letterOf(c, loc)>>]

secondaryWeight(c, loc) ==
  IF loc = "lt" /\ lowerChar(c) = "y" THEN 1 ELSE 0

\* The collations that order an upper-case letter before its lower-case
\* form.
UpperFirst == {"da", "mt"}

tertiaryWeight(c, loc) ==
  IF loc \in UpperFirst THEN (IF IsLower(c) THEN 1 ELSE 0)
  ELSE (IF IsUpper(c) THEN 1 ELSE 0)

\* The characters at the positions i and i + 1 of s are the letter `name`
\* of the collation.  Czech takes them in any case; the others do not take
\* a lower-case character followed by an upper-case one as the letter.
IsDigraph(s, i, name, loc) ==
  /\ i < Len(s)
  /\ PrimaryWeightOf[<<loc, name>>] # 0
  /\ <<lowerChar(s[i]), lowerChar(s[i + 1])>> = Digraphs[name]
  /\ loc # "cs" => ~(IsLower(s[i]) /\ IsUpper(s[i + 1]))

\* The case of a letter of two characters: both lower case, then lower and
\* upper, upper and lower, both upper; the other way round where the upper
\* case comes first.
digraphCase(first, second, loc) ==
  LET form == (IF IsUpper(first) THEN 2 ELSE 0)
                + (IF IsUpper(second) THEN 1 ELSE 0)
  IN  IF loc \in UpperFirst THEN 3 - form ELSE form

\* The collation elements of s from position i on.
RECURSIVE collationElements(_, _, _)
collationElements(s, i, loc) ==
  IF i > Len(s) THEN <<>>
  ELSE IF \E name \in DOMAIN Digraphs : IsDigraph(s, i, name, loc)
  THEN LET name == CHOOSE name \in DOMAIN Digraphs : IsDigraph(s, i, name, loc)
       IN  <<[primary |-> PrimaryWeightOf[<<loc, name>>],
              secondary |-> 0,
              tertiary |-> digraphCase(s[i], s[i + 1], loc)]>>
           \o collationElements(s, i + 2, loc)
  ELSE <<[primary |-> primaryWeight(s[i], loc),
          secondary |-> secondaryWeight(s[i], loc),
          tertiary |-> tertiaryWeight(s[i], loc)]>>
       \o collationElements(s, i + 1, loc)

\* The primary weights of a and b from element i on: -1, 0 or 1.
RECURSIVE comparePrimary(_, _, _)
comparePrimary(a, b, i) ==
  IF i > Len(a) \/ i > Len(b)
  THEN (IF Len(a) = Len(b) THEN 0 ELSE IF Len(a) < Len(b) THEN -1 ELSE 1)
  ELSE IF a[i].primary # b[i].primary
  THEN (IF a[i].primary < b[i].primary THEN -1 ELSE 1)
  ELSE comparePrimary(a, b, i + 1)

\* The secondary weights from element i on, for strings equal in their
\* primary weights: -1, 0 or 1.
RECURSIVE compareVariant(_, _, _)
compareVariant(a, b, i) ==
  IF i > Len(a) THEN 0
  ELSE IF a[i].secondary # b[i].secondary
  THEN (IF a[i].secondary < b[i].secondary THEN -1 ELSE 1)
  ELSE compareVariant(a, b, i + 1)

\* The tertiary weights from element i on, for strings equal in their
\* primary and secondary weights: -1, 0 or 1.
RECURSIVE compareCase(_, _, _)
compareCase(a, b, i) ==
  IF i > Len(a) THEN 0
  ELSE IF a[i].tertiary # b[i].tertiary
  THEN (IF a[i].tertiary < b[i].tertiary THEN -1 ELSE 1)
  ELSE compareCase(a, b, i + 1)

\* a.localeCompare(b) on a host whose default locale is loc.
localeCompare(a, b, loc) ==
  LET x == collationElements(a, 1, loc)
      y == collationElements(b, 1, loc)
      p == comparePrimary(x, y, 1)
      v == compareVariant(x, y, 1)
  IN  IF p # 0 THEN p ELSE IF v # 0 THEN v ELSE compareCase(x, y, 1)

\* An entry of the sort harness.
sortEntry(id, title) ==
  [id |-> id, category |-> <<"C","O","R","E">>, title |-> title,
   launch |-> [required_params |-> <<>>, optional_params |-> <<>>]]

\* A "Alpha", B "zeta", C "Alpha", D "alpha", E "Zeta", F "Chi", G "Eta",
\* H "Tau", I "Aa", J "Cyan", K "Clio": titles that are equal, titles that
\* differ in case only, and titles the collations order differently.
SortUniverse ==
  { sortEntry(<<"A">>, <<"A","l","p","h","a">>),
    sortEntry(<<"B">>, <<"z","e","t","a">>),
    sortEntry(<<"C">>, <<"A","l","p","h","a">>),
    sortEntry(<<"D">>, <<"a","l","p","h","a">>),
    sortEntry(<<"E">>, <<"Z","e","t","a">>),
    sortEntry(<<"F">>, <<"C","h","i">>),
    sortEntry(<<"G">>, <<"E","t","a">>),
    sortEntry(<<"H">>, <<"T","a","u">>),
    sortEntry(<<"I">>, <<"A","a">>),
    sortEntry(<<"J">>, <<"C","y","a","n">>),
    sortEntry(<<"K">>, <<"C","l","i","o">>) }

\* The titles of the model, and what localeCompare gives for each two of
\* them under each collation, computed once.
ComparedTitles ==
  {KNOWLEDGE_BASE[i].title : i \in DOMAIN KNOWLEDGE_BASE}
    \cup {doc.title : doc \in SortUniverse}

TitleComparisons ==
  [key \in Locales \X ComparedTitles \X ComparedTitles |->
     localeCompare(key[2], key[3], key[1])] @@ <<>>

\* The comparator handed to sort: (a, b) => a.title.localeCompare(b.title).
compareDocs(a, b, loc) ==
  IF a.title \in ComparedTitles /\ b.title \in ComparedTitles
  THEN TitleComparisons[<<loc, a.title, b.title>>]
  ELSE localeCompare(a.title, b.title, loc)

\* Array.prototype.sort is stable: an element goes behind every element
\* already placed that does not compare greater than it.
RECURSIVE insertStable(_, _, _)
insertStable(placed, doc, loc) ==
  IF placed = <<>> THEN <<doc>>
  ELSE IF compareDocs(Head(placed), doc, loc) <= 0
       THEN <<Head(placed)>> \o insertStable(Tail(placed), doc, loc)
       ELSE <<doc>> \o placed

RECURSIVE sortFrom(_, _, _)
sortFrom(placed, rest, loc) ==
  IF rest = <<>> THEN placed
  ELSE sortFrom(insertStable(placed, Head(rest), loc), Tail(rest), loc)

\* [...docs].sort((a, b) => a.title.localeCompare(b.title))
sortByTitle(docs, loc) == sortFrom(<<>>, docs, loc)

\* The sort is applied to the array docs itself, which it reorders.
displayListInPlace(docs, alpha, loc) ==
  IF alpha
  THEN [docs |-> sortByTitle(docs, loc), result |-> sortByTitle(docs, loc)]
  ELSE [docs |-> docs, result |-> docs]

\* sortAlpha ? [...docs].sort(cmp) : docs
\* Array.prototype.sort reorders the array it is called on and returns it;
\* here that array is the copy the spread makes.  The outcome is the
\* elements of docs afterwards and the elements of the array returned.
displayList(docs, alpha, loc) ==
  IF alpha
  THEN LET copy == docs
       IN  [docs |-> docs, result |-> sortByTitle(copy, loc)]
  ELSE [docs |-> docs, result |-> docs]

\* The two lists a render computes from the catalog docs, the search term
\* st and the sort mode alpha, on a host whose default locale is loc.
\* KNOWLEDGE_BASE.filter(...) makes a new array and leaves its receiver as
\* it is.
renderLists(docs, st, alpha, loc) ==
  LET filtered == filterDocs(docs, st)
  IN  [filteredDocs |-> filtered,
       displayDocs |-> displayList(filtered, alpha, loc).result]

(***************************************************************************)
(* JavaScript values that reach createLog as the payload argument.  A      *)
(* value is tagged with its type; an object is either an object literal    *)
(* ("obj", its properties given in place) or a reference into the heap of  *)
(* objects its caller can still change ("ref").                            *)
(***************************************************************************)
Undefined == [t |-> "undefined"]

Null == [t |-> "null"]

Bool(b) == [t |-> "bool", b |-> b]

Num(n) == [t |-> "num", n |-> n]

Str(s) == [t |-> "str", s |-> s]

Ref(id) == [t |-> "ref", id |-> id]

Obj(props) == [t |-> "obj", props |-> props]

NoProps == [k \in {} |-> Undefined]

\* obj[key] = val
withProp(props, key, val) ==
  [k \in (DOMAIN props) \cup {key} |-> IF k = key THEN val ELSE props[k]]

\* The order in which the properties of an object are enumerated.
PropertyKeys == <<"count", "child", "entries">>

\* ToBoolean: what `payload ? ... : ...` tests.
truthy(v) ==
  CASE v.t = "undefined" -> FALSE
    [] v.t = "null" -> FALSE
    [] v.t = "bool" -> v.b
    [] v.t = "num" -> v.n # 0
    [] v.t = "str" -> v.s # ""
    [] OTHER -> TRUE

(***************************************************************************)
(* JSON.stringify.  The text is a sequence of tokens.  The result is       *)
(* [r |-> "text", text |-> tokens], [r |-> "undefined"] for a value with   *)
(* no JSON form, or [r |-> "throw"] for a circular structure (TypeError).  *)
(***************************************************************************)
Punct(c) == [k |-> "punct", c |-> c]

RECURSIVE stringify(_, _, _)
RECURSIVE stringifyProps(_, _, _, _, _)

\* The members of an object, in enumeration order; a property whose value
\* has no JSON form is left out.
stringifyProps(props, keys, h, ancestors, first) ==
  IF keys = <<>> THEN [r |-> "text", text |-> <<>>]
  ELSE IF Head(keys) \notin DOMAIN props
  THEN stringifyProps(props, Tail(keys), h, ancestors, first)
  ELSE LET one == stringify(props[Head(keys)], h, ancestors)
       IN  IF one.r = "throw" THEN one
           ELSE IF one.r = "undefined"
           THEN stringifyProps(props, Tail(keys), h, ancestors, first)
           ELSE LET more == stringifyProps(props, Tail(keys), h, ancestors, FALSE)
                IN  IF more.r = "throw" THEN more
                    ELSE [r |-> "text",
                          text |-> (IF first THEN <<>> ELSE <<Punct(",")>>)
                                   \o <<[k |-> "str", s |-> Head(keys)], Punct(":")>>
                                   \o one.text \o more.text]

stringify(v, h, ancestors) ==
  CASE v.t = "undefined" -> [r |-> "undefined"]
    [] v.t = "null" -> [r |-> "text", text |-> <<[k |-> "null"]>>]
    [] v.t = "bool" -> [r |-> "text", text |-> <<[k |-> IF v.b THEN "true" ELSE "false"]>>]
    [] v.t = "num" -> [r |-> "text", text |-> <<[k |-> "num", n |-> v.n]>>]
    [] v.t = "str" -> [r |-> "text", text |-> <<[k |-> "str", s |-> v.s]>>]
    [] v.t = "ref" ->
         IF v.id \in ancestors THEN [r |-> "throw"]
         ELSE LET body == stringifyProps(h[v.id], PropertyKeys, h,
                                         ancestors \cup {v.id}, TRUE)
              IN  IF body.r = "throw" THEN body
                  ELSE [r |-> "text",
                        text |-> <<Punct("{")>> \o body.text \o <<Punct("}")>>]
    [] v.t = "obj" ->
         LET body == stringifyProps(v.props, PropertyKeys, h, ancestors, TRUE)
         IN  IF body.r = "throw" THEN body
             ELSE [r |-> "text",
                   text |-> <<Punct("{")>> \o body.text \o <<Punct("}")>>]

JSON_stringify(v, h) == stringify(v, h, {})

(***************************************************************************)
(* JSON.parse of a token sequence: a fresh value, objects as literals.     *)
(***************************************************************************)
RECURSIVE parseValue(_)
RECURSIVE parseMembers(_, _)

\* [val |-> the value read, rest |-> the tokens behind it]
parseValue(toks) ==
  LET tok == Head(toks)
  IN  CASE tok.k = "null" -> [val |-> Null, rest |-> Tail(toks)]
        [] tok.k = "true" -> [val |-> Bool(TRUE), rest |-> Tail(toks)]
        [] tok.k = "false" -> [val |-> Bool(FALSE), rest |-> Tail(toks)]
        [] tok.k = "num" -> [val |-> Num(tok.n), rest |-> Tail(toks)]
        [] tok.k = "str" -> [val |-> Str(tok.s), rest |-> Tail(toks)]
        [] tok.k = "punct" -> parseMembers(Tail(toks), NoProps)

\* The members of an object up to its closing brace.
parseMembers(toks, props) ==
  LET tok == Head(toks)
  IN  IF tok.k = "punct" /\ tok.c = "}"
      THEN [val |-> Obj(props), rest |-> Tail(toks)]
      ELSE IF tok.k = "punct" /\ tok.c = ","
      THEN parseMembers(Tail(toks), props)
      ELSE LET member == parseValue(Tail(Tail(toks)))
           IN  parseMembers(member.rest, withProp(props, tok.s, member.val))

JSON_parse(text) == parseValue(text).val

(***************************************************************************)
(* createLog (services/logger).                                            *)
(***************************************************************************)
\* uuid.slice(0, n)
slice(s, n) == SubSeq(s, 1, IF n < Len(s) THEN n ELSE Len(s))

\* payload ? JSON.parse(JSON.stringify(payload)) : undefined
\* [ok |-> TRUE, val |-> the snapshot] or [ok |-> FALSE] when it throws.
snapshot(payload, h) ==
  IF truthy(payload)
  THEN LET text == JSON_stringify(payload, h)
       IN  IF text.r = "text" THEN [ok |-> TRUE, val |-> JSON_parse(text.text)]
           ELSE [ok |-> FALSE]
  ELSE [ok |-> TRUE, val |-> Undefined]

\* Reading a property of undefined, or calling it, throws a TypeError.
ThrewTypeError == [kind |-> "TypeError"]

\* A call that returned value.
Returned(value) == [kind |-> "returned", value |-> value]

\* The snapshot keeps the argument itself.
createLogShared(layer, status, message, payload, h, uuid, now) ==
  IF uuid.kind = "TypeError" THEN [ok |-> FALSE]
  ELSE [ok |-> TRUE,
        log |-> [traceId |-> slice(uuid.value, 8), timestamp |-> now, layer |-> layer,
                 status |-> status, message |-> message, payload |-> payload]]

\* The trace id keeps one character more of the UUID.
createLogLongId(layer, status, message, payload, h, uuid, now) ==
  IF uuid.kind = "TypeError" THEN [ok |-> FALSE]
  ELSE LET snap == snapshot(payload, h)
       IN  IF snap.ok
           THEN [ok |-> TRUE,
                 log |-> [traceId |-> slice(uuid.value, 9), timestamp |-> now,
                          layer |-> layer, status |-> status,
                          message |-> message, payload |-> snap.val]]
           ELSE [ok |-> FALSE]

\* uuid is the outcome of crypto.randomUUID() when the function runs, the
\* UUID returned or the TypeError thrown where crypto.randomUUID is
\* undefined; now is what Date.now() returns and h is the heap at that
\* moment.  The properties of the record are evaluated in the order they
\* are written, traceId first: where the call of randomUUID throws, the
\* function ends there.  [ok |-> TRUE, log |-> the record] or [ok |-> FALSE]
\* when it throws.
createLog(layer, status, message, payload, h, uuid, now) ==
  IF uuid.kind = "TypeError" THEN [ok |-> FALSE]
  ELSE LET snap == snapshot(payload, h)
       IN  IF snap.ok
           THEN [ok |-> TRUE,
                 log |-> [traceId |-> slice(uuid.value, 8), timestamp |-> now,
                          layer |-> layer, status |-> status,
                          message |-> message, payload |-> snap.val]]
           ELSE [ok |-> FALSE]

(***************************************************************************)
(* The log state and its updates (App.tsx, "Helpers").                     *)
(*                                                                         *)
(* setLogs does not change `logs` at once: the update is enqueued and the  *)
(* next render processes the queue in order.  An update is either the      *)
(* updater function addLog passes (prev => [...prev, createLog(...)]),     *)
(* which runs createLog when the queue is processed, or a plain value      *)
(* (clearLogs).                                                            *)
(***************************************************************************)
\* The argument of setLogs in clearLogs leaves the oldest record.
clearedLogsKeepFirst == IF logs = <<>> THEN <<>> ELSE <<logs[1]>>

\* setLogs([]): the value clearLogs sets.
clearedLogs == <<>>

\* The update addLog enqueues.
addLog(layer, status, message, payload) ==
  [kind |-> "updater", layer |-> layer, status |-> status, message |-> message,
   payload |-> payload]

\* The update clearLogs enqueues.
clearUpdate == [kind |-> "value", value |-> clearedLogs]

\* The updates of q that are updater functions.
updaters(q) == SelectSeq(q, LAMBDA u : u.kind = "updater")

\* The queue q processed on top of prev.  Each updater of q runs createLog
\* on its own: uuids and nows hold, in order, the outcome of each updater's
\* call of crypto.randomUUID and what Date.now() returns to it.  [ok |-> TRUE, logs |-> the new
\* state], or [ok |-> FALSE, failed |-> the update whose updater threw].
RECURSIVE processUpdates(_, _, _, _, _)
processUpdates(prev, q, uuids, nows, h) ==
  IF q = <<>> THEN [ok |-> TRUE, logs |-> prev]
  ELSE LET u == Head(q)
       IN  IF u.kind = "value"
           THEN processUpdates(u.value, Tail(q), uuids, nows, h)
           ELSE LET made == createLog(u.layer, u.status, u.message, u.payload,
                                      h, Head(uuids), Head(nows))
                IN  IF made.ok
                    THEN processUpdates(Append(prev, made.log), Tail(q),
                                        Tail(uuids), Tail(nows), h)
                    ELSE [ok |-> FALSE, failed |-> u]

\* A render that processes the queue q.  An updater that throws fails the
\* render; nothing catches the error, so the component tree is unmounted.
render(q, uuids, nows) ==
  LET result == processUpdates(logs, q, uuids, nows, heap)
  IN  IF result.ok
      THEN /\ logs' = result.logs
           /\ mounted' = "mounted"
           /\ failedCaptures' = failedCaptures
      ELSE /\ logs' = logs
           /\ mounted' = "crashed"
           /\ failedCaptures' = failedCaptures \cup
                {[layer |-> result.failed.layer, status |-> result.failed.status,
                  message |-> result.failed.message]}

(***************************************************************************)
(* Inputs.                                                                 *)
(***************************************************************************)
\* Values crypto.randomUUID() can return; the first two agree on their
\* first eight characters.
UUIDS ==
  { <<"1","b","4","e","2","8","b","a","-","2","f","a","1","-","4","d","3","b","-",
      "a","3","f","5","-","0","a","1","c","2","e","3","d","4","f","5","a">>,
    <<"1","b","4","e","2","8","b","a","-","7","7","c","0","-","4","e","1","f","-",
      "9","b","2","d","-","6","c","5","d","4","e","3","f","2","a","1","b">>,
    <<"9","f","8","e","7","d","6","c","-","5","b","4","a","-","4","c","3","d","-",
      "8","e","2","f","-","1","a","0","b","9","c","8","d","7","e","6","f">> }

\* Search terms typed into the input: "", "core", "Content", "Text", "zz".
SearchTerms ==
  { <<>>, <<"c","o","r","e">>, <<"C","o","n","t","e","n","t">>,
    <<"T","e","x","t">>, <<"z","z">> }

CopyTypes == { <<"S","N","I","P","P","E","T">>, <<"R","A","W">> }

\* Two objects of a caller: object 1 is {count: 1, child: <object 2>} and
\* object 2 is {}.
InitHeap ==
  [id \in {1, 2} |->
     IF id = 1 THEN withProp(withProp(NoProps, "count", Num(1)), "child", Ref(2))
     ELSE NoProps]

\* What the caller does to its objects afterwards, obj[key] = val: it
\* changes a property of object 1, and it makes object 2, which is nested
\* in object 1, point back to object 1.
Mutations ==
  { [id |-> 1, key |-> "count", val |-> Num(2)],
    [id |-> 2, key |-> "child", val |-> Ref(1)] }

\* addLog calls of a caller: "read" without payload, "copy" with object 1,
\* "info" with object 2, and "zero", "empty", "flag", "null" with the
\* payloads 0, "", false and null.
SampleCalls ==
  { [layer |-> "UI", status |-> "ACCESS", message |-> <<"r","e","a","d">>,
     payload |-> Undefined],
    [layer |-> "DATABASE", status |-> "COPY", message |-> <<"c","o","p","y">>,
     payload |-> Ref(1)],
    [layer |-> "DATABASE", status |-> "INFO", message |-> <<"i","n","f","o">>,
     payload |-> Ref(2)],
    [layer |-> "UI", status |-> "INFO", message |-> <<"z","e","r","o">>,
     payload |-> Num(0)],
    [layer |-> "UI", status |-> "COPY", message |-> <<"e","m","p","t","y">>,
     payload |-> Str("")],
    [layer |-> "DATABASE", status |-> "ACCESS", message |-> <<"f","l","a","g">>,
     payload |-> Bool(FALSE)],
    [layer |-> "UI", status |-> "ACCESS", message |-> <<"n","u","l","l">>,
     payload |-> Null] }

\* Values Date.now() can return: an earlier and a later time.
ClockReadings == {0, 1}

NoClipboard == [kind |-> "none"]

\* navigator.clipboard is defined in a secure context (https, localhost)
\* of a browser that has the asynchronous clipboard API, and undefined
\* elsewhere: in a page served over plain http from another host, and in a
\* DOM that has no clipboard API.
ClipboardApis == {"defined", "undefined"}

\* crypto.randomUUID is defined in a secure context of a browser that has
\* the function and in the DOM of a JavaScript runtime that provides it,
\* and undefined elsewhere: in a page served over plain http from another
\* host, and in a browser released before the function was, which can have
\* the clipboard API all the same.
CryptoApis == {"defined", "undefined"}

\* What a call of crypto.randomUUID() can come to in the browsing context.
UuidDraws ==
  IF cryptoApi = "defined" THEN {Returned(uuid) : uuid \in UUIDS}
  ELSE {ThrewTypeError}

NotSorted == [done |-> FALSE]

NotLookedUp == [done |-> FALSE]

(***************************************************************************)
(* The lists of the current render.  RenderedLists holds them for the      *)
(* catalog as the source gives it and each search term, sort mode and      *)
(* locale of the model, so that they are computed once.                    *)
(***************************************************************************)
RenderedLists ==
  [key \in SearchTerms \X BOOLEAN \X Locales |->
     renderLists(KNOWLEDGE_BASE, key[1], key[2], key[3])] @@ <<>>

rendered ==
  IF catalogRefs = InitialRefs /\ searchTerm \in SearchTerms
  THEN RenderedLists[<<searchTerm, sortAlpha, locale>>]
  ELSE renderLists(catalog, searchTerm, sortAlpha, locale)

filteredDocs == rendered.filteredDocs

displayDocs == rendered.displayDocs

(***************************************************************************)
(* The App component.  The mount effect enqueues its update and the render *)
(* that processes it follows later; an event can be handled in between.    *)
(* A handler runs to its end and the render it has scheduled follows       *)
(* before the next event is handled; that render processes the queue as it *)
(* stands, the handler's own update last.                                  *)
(***************************************************************************)
Init ==
  /\ mounted = "constructed"
  /\ activeDoc = KNOWLEDGE_BASE[1]
  /\ logs = <<>>
  /\ searchTerm = <<>>
  /\ sortAlpha = FALSE
  /\ queue = <<>>
  /\ heap = InitHeap
  /\ clock = 0
  /\ calls = <<>>
  /\ failedCaptures = {}
  /\ clipboard = NoClipboard
  /\ entries = <<>>
  /\ sorted = NotSorted
  /\ catalogRefs = InitialRefs
  /\ found = NotLookedUp
  /\ clipboardApi \in ClipboardApis
  /\ cryptoApi \in CryptoApis
  /\ locale \in Locales
  /\ invokedAt = <<>>
  /\ reported = 0

\* The render that processes the queue followed by the given updates.  The
\* updaters run one after the other; the first reads the clock as it
\* stands, each later one reads what the clock shows by then, and the clock
\* is left at the last reading.
flush(updates) ==
  /\ LET q == queue \o updates
         n == Len(updaters(q))
     IN  \E uuids \in [1..n -> UuidDraws], nows \in [1..n -> ClockReadings] :
           /\ n > 0 => nows[1] = clock
           /\ render(q, uuids, nows)
           /\ clock' = IF n = 0 THEN clock ELSE nows[n]
  /\ queue' = <<>>
  /\ invokedAt' = <<>>

\* useEffect(() => addLog('DATABASE', INFO, 'Reference Database mounted.',
\*                        { entries: KNOWLEDGE_BASE.length }), [])
\* The effect runs once, after the first render, and enqueues the update.
Mount ==
  /\ mounted = "constructed"
  /\ mounted' = "mounted"
  /\ queue' = Append(queue,
                addLog("DATABASE", "INFO",
                       <<"R","e","f","e","r","e","n","c","e"," ","D","a","t","a",
                         "b","a","s","e"," ","m","o","u","n","t","e","d",".">>,
                       Obj(withProp(NoProps, "entries", Num(Len(KNOWLEDGE_BASE))))))
  /\ invokedAt' = Append(invokedAt, clock)
  /\ reported' = reported + 1
  /\ UNCHANGED <<activeDoc, logs, searchTerm, sortAlpha, heap, clock, calls,
                 failedCaptures, clipboard, entries, sorted,
                 catalogRefs, found, clipboardApi, cryptoApi, locale>>

\* The render of the updates enqueued outside an event handler.
Render ==
  /\ mounted = "mounted"
  /\ queue # <<>>
  /\ flush(<<>>)
  /\ UNCHANGED <<activeDoc, searchTerm, sortAlpha, heap, calls,
                 clipboard, entries, sorted,
                 catalogRefs, found, clipboardApi, cryptoApi, locale, reported>>

\* The entries the user can click: DocList renders one button for each
\* entry of displayDocs.
Pickable == {displayDocs[i] : i \in DOMAIN displayDocs}

handleDocChange(doc) ==
  /\ mounted = "mounted"
  /\ reported < MaxLogs
  /\ reported' = reported + 1
  /\ flush(<<addLog("UI", "ACCESS",
                    <<"R","e","a","d"," ","a","c","c","e","s","s",":"," ">>
                      \o doc.title \o <<" ","[">> \o doc.id \o <<"]">>,
                    Undefined)>>)
  /\ activeDoc' = doc
  /\ clipboard' = NoClipboard
  /\ UNCHANGED <<searchTerm, sortAlpha, heap, calls, entries, sorted,
                 catalogRefs, found, clipboardApi, cryptoApi, locale>>

\* What handleCopy hands to navigator.clipboard.writeText: the active
\* entry's code snippet, or the active entry serialized.
copyContent(type) ==
  IF type = <<"R","A","W">>
  THEN [kind |-> "serialized", doc |-> activeDoc]
  ELSE [kind |-> "codeSnippet", of |-> activeDoc.id]

\* navigator.clipboard.writeText(content) returns a promise the handler
\* neither awaits nor observes, so whether the write succeeds has no part
\* in what follows.  Where navigator.clipboard is undefined the expression
\* throws, the handler ends at that line, and no update is enqueued; an
\* error thrown by an event handler leaves the component mounted, and with
\* no update of its own the handler schedules no render.
handleCopy(type) ==
  /\ mounted = "mounted"
  /\ IF clipboardApi = "defined"
     THEN /\ reported < MaxLogs
          /\ reported' = reported + 1
          /\ clipboard' = copyContent(type)
          /\ flush(<<addLog("DATABASE", "COPY",
                            <<"C","o","n","t","e","n","t"," ","c","o","p","i",
                              "e","d"," ","t","o"," ","c","l","i","p","b","o",
                              "a","r","d",":"," ">>
                              \o activeDoc.id \o <<" ","[">> \o type
                              \o <<"]">>,
                            Undefined)>>)
     ELSE /\ clipboard' = ThrewTypeError
          /\ UNCHANGED <<mounted, logs, failedCaptures, queue, clock,
                         invokedAt, reported>>
  /\ UNCHANGED <<activeDoc, searchTerm, sortAlpha, heap, calls,
                 entries, sorted,
                 catalogRefs, found, clipboardApi, cryptoApi, locale>>

toggleSort ==
  /\ mounted = "mounted"
  /\ reported < MaxLogs
  /\ reported' = reported + 1
  /\ LET newValue == ~sortAlpha
     IN  /\ sortAlpha' = newValue
         /\ flush(<<addLog("UI", "ACCESS",
                           <<"S","o","r","t"," ","o","r","d","e","r"," ",
                             "c","h","a","n","g","e","d",":"," ">>
                             \o (IF newValue THEN <<"A","-","Z">>
                                 ELSE <<"D","e","f","a","u","l","t">>),
                           Undefined)>>)
  /\ clipboard' = NoClipboard
  /\ UNCHANGED <<activeDoc, searchTerm, heap, calls, entries, sorted,
                 catalogRefs, found, clipboardApi, cryptoApi, locale>>

\* onChange={(e) => setSearchTerm(e.target.value)}
setSearchTerm(value) ==
  /\ mounted = "mounted"
  /\ searchTerm' = value
  /\ flush(<<>>)
  /\ clipboard' = NoClipboard
  /\ UNCHANGED <<activeDoc, sortAlpha, heap, calls, entries, sorted,
                 catalogRefs, found, clipboardApi, cryptoApi, locale, reported>>

clearLogs ==
  /\ mounted = "mounted"
  /\ flush(<<clearUpdate>>)
  /\ clipboard' = NoClipboard
  /\ UNCHANGED <<activeDoc, searchTerm, sortAlpha, heap, calls,
                 entries, sorted,
                 catalogRefs, found, clipboardApi, cryptoApi, locale, reported>>

\* Date.now() reads the host's wall clock, which runs on between two events
\* and which the host may set, forward or back.
Tick ==
  /\ \E t \in ClockReadings : t # clock /\ clock' = t
  /\ UNCHANGED <<mounted, activeDoc, logs, searchTerm, sortAlpha, queue, heap,
                 calls, failedCaptures, clipboard, entries, sorted,
                 catalogRefs, found, clipboardApi, cryptoApi, locale, invokedAt, reported>>

Next ==
  \/ Mount
  \/ Render
  \/ \E doc \in Pickable : handleDocChange(doc)
  \/ \E type \in CopyTypes : handleCopy(type)
  \/ toggleSort
  \/ \E value \in SearchTerms : setSearchTerm(value)
  \/ clearLogs
  \/ Tick

Spec == Init /\ [][Next]_vars

(***************************************************************************)
(* The log under any caller: addLog and clearLogs called in any order and  *)
(* number before the next render, the caller changing its payload objects  *)
(* in between, the clock moving between the calls, before the render and   *)
(* between the updaters of one render.  It starts from the mounted         *)
(* component with its log cleared, which the App reaches where             *)
(* crypto.randomUUID is defined.  No step of it sorts or copies to the     *)
(* clipboard, so it is taken on one such host.                             *)
(***************************************************************************)
InitLog ==
  /\ mounted = "mounted"
  /\ activeDoc = KNOWLEDGE_BASE[1]
  /\ logs = <<>>
  /\ searchTerm = <<>>
  /\ sortAlpha = FALSE
  /\ queue = <<>>
  /\ heap = InitHeap
  /\ clock = 0
  /\ calls = <<>>
  /\ failedCaptures = {}
  /\ clipboard = NoClipboard
  /\ entries = <<>>
  /\ sorted = NotSorted
  /\ catalogRefs = InitialRefs
  /\ found = NotLookedUp
  /\ clipboardApi = "defined"
  /\ cryptoApi = "defined"
  /\ locale = "root"
  /\ invokedAt = <<>>
  /\ reported = 0

CallAddLog(c) ==
  /\ mounted = "mounted"
  /\ Len(logs) + Len(queue) < MaxCalls
  /\ queue' = Append(queue, addLog(c.layer, c.status, c.message, c.payload))
  /\ calls' = Append(calls, [layer |-> c.layer, status |-> c.status,
                             message |-> c.message, payload |-> c.payload])
  /\ invokedAt' = Append(invokedAt, clock)
  /\ UNCHANGED <<mounted, activeDoc, logs, searchTerm, sortAlpha, heap, clock,
                 failedCaptures, clipboard, entries, sorted,
                 catalogRefs, found, clipboardApi, cryptoApi, locale, reported>>

CallClearLogs ==
  /\ mounted = "mounted"
  /\ Len(queue) < MaxCalls
  /\ queue' = Append(queue, clearUpdate)
  /\ calls' = <<>>
  /\ invokedAt' = <<>>
  /\ UNCHANGED <<mounted, activeDoc, logs, searchTerm, sortAlpha, heap, clock,
                 failedCaptures, clipboard, entries, sorted,
                 catalogRefs, found, clipboardApi, cryptoApi, locale, reported>>

MutatePayload(m) ==
  /\ mounted = "mounted"
  /\ heap' = [heap EXCEPT ![m.id] = withProp(@, m.key, m.val)]
  /\ heap' # heap
  /\ UNCHANGED <<mounted, activeDoc, logs, searchTerm, sortAlpha, queue, clock,
                 calls, failedCaptures, clipboard, entries, sorted,
                 catalogRefs, found, clipboardApi, cryptoApi, locale, invokedAt, reported>>

NextLog ==
  \/ \E c \in SampleCalls : CallAddLog(c)
  \/ CallClearLogs
  \/ Render
  \/ \E m \in Mutations : MutatePayload(m)
  \/ Tick

SpecLog == InitLog /\ [][NextLog]_vars

(***************************************************************************)
(* The computation of the displayed list applied to any sequence of        *)
(* entries, in either mode and any number of times, under each collation.  *)
(***************************************************************************)
SortInputs == UNION {[1..n -> SortUniverse] : n \in 0..MaxEntries}

InitSort ==
  /\ mounted = "mounted"
  /\ activeDoc = KNOWLEDGE_BASE[1]
  /\ logs = <<>>
  /\ searchTerm = <<>>
  /\ sortAlpha = FALSE
  /\ queue = <<>>
  /\ heap = InitHeap
  /\ clock = 0
  /\ calls = <<>>
  /\ failedCaptures = {}
  /\ clipboard = NoClipboard
  /\ entries \in SortInputs
  /\ sorted = NotSorted
  /\ catalogRefs = InitialRefs
  /\ found = NotLookedUp
  /\ clipboardApi = "defined"
  /\ cryptoApi = "defined"
  /\ locale \in Locales
  /\ invokedAt = <<>>
  /\ reported = 0

\* The list is computed from entries with alpha for sortAlpha.  The outcome
\* records the mode, the list returned and, in `previous`, the mode of the
\* computation before this one, if there was one.
ApplySort(alpha) ==
  /\ LET outcome == displayList(entries, alpha, locale)
     IN  /\ sorted' = [done |-> TRUE, alpha |-> alpha, docs |-> outcome.result,
                       previous |-> IF sorted.done THEN <<sorted.alpha>>
                                    ELSE <<>>]
         /\ entries' = outcome.docs
  /\ UNCHANGED <<mounted, activeDoc, logs, searchTerm, sortAlpha, queue, heap,
                 clock, calls, failedCaptures, clipboard,
                 catalogRefs, found, clipboardApi, cryptoApi, locale, invokedAt, reported>>

NextSort == \E alpha \in BOOLEAN : ApplySort(alpha)

SpecSort == InitSort /\ [][NextSort]_vars

(***************************************************************************)
(* getDocById (the data access layer) applied to any collection.           *)
(***************************************************************************)
\* The lookup disregards letter case.
RECURSIVE getDocByIdAnyCase(_, _)
getDocByIdAnyCase(docs, id) ==
  IF docs = <<>> THEN Undefined
  ELSE IF toLowerCase(Head(docs).id) = toLowerCase(id) THEN Head(docs)
  ELSE getDocByIdAnyCase(Tail(docs), id)

\* docs.find(d => d.id === id): the first element whose id is id, or
\* undefined when the array is exhausted.
RECURSIVE getDocById(_, _)
getDocById(docs, id) ==
  IF docs = <<>> THEN Undefined
  ELSE IF Head(docs).id = id THEN Head(docs)
  ELSE getDocById(Tail(docs), id)

\* The entries of the sort harness and a second entry with the id A.
LookupUniverse ==
  SortUniverse \cup {sortEntry(<<"A">>, <<"z","e","t","a">>)}

\* Collections handed to the lookup: short ones, where an id may occur
\* more than once, and the catalog.
LookupInputs ==
  UNION {[1..n -> LookupUniverse] : n \in 0..MaxEntries} \cup {KNOWLEDGE_BASE}

\* "A", "a", "C", "Z" and "chat-session"
LookupIds ==
  { <<"A">>, <<"a">>, <<"C">>, <<"Z">>,
    <<"c","h","a","t","-","s","e","s","s","i","o","n">> }

InitLookup ==
  /\ mounted = "mounted"
  /\ activeDoc = KNOWLEDGE_BASE[1]
  /\ logs = <<>>
  /\ searchTerm = <<>>
  /\ sortAlpha = FALSE
  /\ queue = <<>>
  /\ heap = InitHeap
  /\ clock = 0
  /\ calls = <<>>
  /\ failedCaptures = {}
  /\ clipboard = NoClipboard
  /\ entries \in LookupInputs
  /\ sorted = NotSorted
  /\ catalogRefs = InitialRefs
  /\ found = NotLookedUp
  /\ clipboardApi = "defined"
  /\ cryptoApi = "defined"
  /\ locale = "root"
  /\ invokedAt = <<>>
  /\ reported = 0

CallGetDocById(id) ==
  /\ ~found.done
  /\ found' = [done |-> TRUE, id |-> id, doc |-> getDocById(entries, id)]
  /\ UNCHANGED <<mounted, activeDoc, logs, searchTerm, sortAlpha, queue, heap,
                 clock, calls, failedCaptures, clipboard, entries, sorted,
                 catalogRefs, clipboardApi, cryptoApi, locale, invokedAt, reported>>

NextLookup == \E id \in LookupIds : CallGetDocById(id)

SpecLookup == InitLookup /\ [][NextLookup]_vars

(***************************************************************************)
(* Properties.                                                             *)
(***************************************************************************)
Range(s) == {s[i] : i \in DOMAIN s}

\* The render has processed every call and the component is alive.
Observed == queue = <<>> /\ mounted = "mounted"

HexDigits ==
  {"0","1","2","3","4","5","6","7","8","9","a","b","c","d","e","f"}

\* The value a payload shows to a reader: references followed into the heap.
RECURSIVE viewPayload(_, _, _)
viewPayload(v, h, ancestors) ==
  CASE v.t = "ref" ->
         IF v.id \in ancestors THEN [t |-> "cycle"]
         ELSE Obj([k \in DOMAIN h[v.id] |->
                     viewPayload(h[v.id][k], h, ancestors \cup {v.id})])
    [] v.t = "obj" ->
         Obj([k \in DOMAIN v.props |-> viewPayload(v.props[k], h, ancestors)])
    [] OTHER -> v

\* The value holds no reference into the heap, at any depth.
RECURSIVE noSharedStructure(_)
noSharedStructure(v) ==
  CASE v.t = "ref" -> FALSE
    [] v.t = "obj" -> \A k \in DOMAIN v.props : noSharedStructure(v.props[k])
    [] OTHER -> TRUE

\* C1: once the calls issued since the last clear are processed, the log
\* holds exactly one record per call, the i-th with the layer, status and
\* message of the i-th call.
C1_EveryCallRecordedInOrder ==
  queue = <<>> =>
    /\ Len(logs) = Len(calls)
    /\ \A i \in DOMAIN calls :
         /\ logs[i].layer = calls[i].layer
         /\ logs[i].status = calls[i].status
         /\ logs[i].message = calls[i].message

\* C2 (as claimed): no two records of the log have the same trace id.
C2_TraceIdsUnique ==
  \A i, j \in DOMAIN logs : i # j => logs[i].traceId # logs[j].traceId

\* C2 (amended): every trace id in the log is the first eight characters
\* of a UUID, eight hexadecimal digits; nothing keeps two records from
\* drawing the same eight.
C2_TraceIdIsUuidPrefix ==
  \A i \in DOMAIN logs :
    /\ Len(logs[i].traceId) = 8
    /\ \A k \in 1..Len(logs[i].traceId) : logs[i].traceId[k] \in HexDigits
    /\ \E uuid \in UUIDS : logs[i].traceId = SubSeq(uuid, 1, 8)

\* Two records of one session carry the same trace id.
C2_Witness ==
  /\ Len(logs) >= 2
  /\ logs[1].traceId = logs[2].traceId
  /\ logs[1].message # logs[2].message

\* C3: the records a render puts into the log carry, in order, the clock
\* readings at their addLog calls, and timestamps do not decrease along
\* the log.
C3_TimestampAtInvocation ==
  [][(queue # <<>> /\ queue' = <<>> /\ mounted' = "mounted") =>
       LET k == Len(invokedAt)
           n == Len(logs')
       IN  /\ \A i \in 1..k : logs'[n - k + i].timestamp = invokedAt[i]
           /\ \A i, j \in DOMAIN logs' :
                i < j => logs'[i].timestamp <= logs'[j].timestamp]_vars

\* C4: a stored payload holds no reference to a caller's object, and a
\* step in which the caller changes one of its objects leaves what every
\* stored payload shows unchanged.
C4_SnapshotIsolated ==
  /\ [](\A i \in DOMAIN logs : noSharedStructure(logs[i].payload))
  /\ [][heap' # heap =>
          \A i \in DOMAIN logs :
            /\ i \in DOMAIN logs'
            /\ viewPayload(logs'[i].payload, heap', {})
                 = viewPayload(logs[i].payload, heap, {})]_vars

\* The log holds the snapshot {count: 1, child: {}} of object 1 although
\* the caller has since changed both object 1 and the object nested in it.
C4_Witness ==
  /\ Observed
  /\ \E i \in DOMAIN logs :
       /\ logs[i].payload =
            Obj(withProp(withProp(NoProps, "count", Num(1)), "child", Obj(NoProps)))
       /\ heap[1]["count"] = Num(2)
       /\ "child" \in DOMAIN heap[2]

\* C5: the stored payload is present exactly when the call provided one,
\* and a provided primitive value is stored as it is.
C5_PayloadStoredIffProvided ==
  (Observed /\ Len(logs) = Len(calls)) =>
    \A i \in DOMAIN logs :
      /\ (logs[i].payload = Undefined) <=> (calls[i].payload = Undefined)
      /\ calls[i].payload.t \in {"null", "bool", "num", "str"}
           => logs[i].payload = calls[i].payload

\* C6: every call whose payload could not be copied still has its record
\* in the log, with the payload dropped.
C6_CaptureFailureStillRecorded ==
  \A c \in failedCaptures :
    \E i \in DOMAIN logs :
      /\ logs[i].layer = c.layer
      /\ logs[i].status = c.status
      /\ logs[i].message = c.message
      /\ logs[i].payload = Undefined

\* C7: a clearLogs step ends with the empty log and nothing left to be
\* put into it, and on an empty log with no record on its way (in
\* particular right after another clearLogs) it changes nothing of the
\* component, its log or its environment.
C7_ClearResetsAndIsIdempotent ==
  [][clearLogs =>
       /\ logs' = <<>>
       /\ queue' = <<>>
       /\ (logs = <<>> /\ queue = <<>>) =>
            UNCHANGED <<mounted, activeDoc, logs, searchTerm, sortAlpha, queue,
                        heap, clock, calls, failedCaptures, entries, sorted,
                        catalogRefs, found, clipboardApi, cryptoApi, locale,
                        invokedAt, reported>>]_vars

\* The log is empty although the mount and the selection of an entry were
\* logged: clearLogs has emptied it.
C7_Witness ==
  /\ mounted = "mounted"
  /\ logs = <<>>
  /\ activeDoc # KNOWLEDGE_BASE[1]

\* t occurs in s when letter case is disregarded.
occursIn(t, s) ==
  \E k \in 0..(Len(s) - Len(t)) :
    \A j \in 1..Len(t) : lowerChar(s[k + j]) = lowerChar(t[j])

CatalogEntries == Range(KNOWLEDGE_BASE)

\* For each search term, the positions of the catalog entries in whose
\* title, category or identifier the term occurs, case disregarded.
ExpectedListing ==
  [term \in SearchTerms |->
     {i \in DOMAIN KNOWLEDGE_BASE :
        \/ occursIn(term, KNOWLEDGE_BASE[i].title)
        \/ occursIn(term, KNOWLEDGE_BASE[i].category)
        \/ occursIn(term, KNOWLEDGE_BASE[i].id)}]

\* C8: a catalog entry is listed exactly when the search term occurs,
\* case disregarded, in its title, category or identifier; nothing else
\* is listed.
C8_FilterMatchesExactly ==
  LET listed == filteredDocs
  IN  /\ \A i \in DOMAIN KNOWLEDGE_BASE :
           (\E j \in DOMAIN listed : listed[j] = KNOWLEDGE_BASE[i])
             <=> i \in ExpectedListing[searchTerm]
      /\ \A j \in DOMAIN listed : listed[j] \in CatalogEntries

\* The term "Content" lists 'streaming-content' alone: it occurs in no
\* title and no category, and in the identifier only when case is
\* disregarded.
C8_Witness ==
  /\ searchTerm = <<"C","o","n","t","e","n","t">>
  /\ filteredDocs = <<KNOWLEDGE_BASE[5]>>

\* The position of a listed entry in the catalog.
catalogIndex(doc) == CHOOSE i \in DOMAIN KNOWLEDGE_BASE : KNOWLEDGE_BASE[i] = doc

\* C9: the filtered list is a subsequence of the catalog, its entries in
\* strictly increasing catalog position, and the empty term lists the
\* whole catalog in its order.
C9_FilterKeepsCatalogOrder ==
  LET listed == filteredDocs
  IN  /\ \A j \in DOMAIN listed : listed[j] \in CatalogEntries
      /\ \A j \in DOMAIN listed :
           j > 1 => catalogIndex(listed[j - 1]) < catalogIndex(listed[j])
      /\ searchTerm = <<>> => listed = KNOWLEDGE_BASE

\* The term "Text" lists 'text-generation' and 'text-to-speech', which are
\* not neighbours in the catalog.
C9_Witness ==
  LET listed == filteredDocs
  IN  /\ Len(listed) = 2
      /\ catalogIndex(listed[1]) = 3
      /\ catalogIndex(listed[2]) = 9

\* The number of positions of s that hold x.
occurrences(s, x) == Cardinality({i \in DOMAIN s : s[i] = x})

\* C10: the alphabetical sort returns a permutation of its input in which
\* a smaller title comes first and equal titles are in identifier order,
\* and sorting the result again changes nothing.
C10_AlphabeticalTotalOrder ==
  (sorted.done /\ sorted.alpha) =>
    /\ Len(sorted.docs) = Len(entries)
    /\ \A x \in Range(entries) :
         occurrences(sorted.docs, x) = occurrences(entries, x)
    /\ \A i, j \in DOMAIN sorted.docs :
         i < j =>
           \/ localeCompare(sorted.docs[i].title, sorted.docs[j].title,
                            locale) < 0
           \/ /\ sorted.docs[i].title = sorted.docs[j].title
              /\ localeCompare(sorted.docs[i].id, sorted.docs[j].id,
                               locale) <= 0
    /\ sortByTitle(sorted.docs, locale) = sorted.docs

\* C11: computing the list, in either mode, changes neither the sequence
\* it is given nor the catalog; in original mode the list is the sequence
\* given, in its order, so toggling the alphabetical mode on and off again
\* shows the original order.
C11_SortLeavesInputAlone ==
  /\ [][entries' = entries /\ catalogRefs' = catalogRefs]_vars
  /\ [](catalog = KNOWLEDGE_BASE)
  /\ [](sorted.done /\ ~sorted.alpha => sorted.docs = entries)

\* The list was computed in alphabetical mode and then in original mode:
\* the list returned is the sequence given, which is not in alphabetical
\* order.
C11_Witness ==
  /\ sorted.done
  /\ ~sorted.alpha
  /\ sorted.previous = <<TRUE>>
  /\ sorted.docs = entries
  /\ sortByTitle(entries, locale) # entries

\* C12: when the collection holds an entry with the identifier looked up,
\* the lookup returns an entry of the collection with that identifier;
\* when it holds none, the lookup returns undefined; and the lookup
\* changes neither the collection nor the catalog nor the log.
C12_LookupFindsById ==
  /\ [](found.done =>
          IF \E i \in DOMAIN entries : entries[i].id = found.id
          THEN /\ found.doc \in Range(entries)
               /\ found.doc.id = found.id
          ELSE found.doc = Undefined)
  /\ [][found' # found =>
          /\ entries' = entries
          /\ catalogRefs' = catalogRefs
          /\ logs' = logs
          /\ queue' = queue]_vars

\* Two entries of the collection have the identifier looked up and another
\* entry stands before them: the lookup returned the first of the two.
C12_Witness ==
  /\ found.done
  /\ Len(entries) = 3
  /\ entries[1].id # found.id
  /\ entries[2].id = found.id
  /\ entries[3].id = found.id
  /\ entries[2] # entries[3]
  /\ found.doc = entries[2]

\* No name stands at two positions of the list.
noDuplicates(names) ==
  \A i, j \in DOMAIN names : i # j => names[i] # names[j]

\* C13: in every reachable state the catalog is the one the program was
\* built with, its identifiers are pairwise distinct, no required and no
\* optional parameter list names a parameter twice, and every category is
\* a member of DocCategory, which has no member besides SETUP, CORE,
\* MULTIMODAL, ADVANCED and SCHEMAS.
C13_CatalogInvariants ==
  LET held == catalog
  IN  /\ held = KNOWLEDGE_BASE
      /\ \A i, j \in DOMAIN held : i # j => held[i].id # held[j].id
      /\ \A i \in DOMAIN held :
           /\ noDuplicates(held[i].launch.required_params)
           /\ noDuplicates(held[i].launch.optional_params)
           /\ held[i].category \in DocCategory
      /\ DocCategory \subseteq
           { <<"S","E","T","U","P">>, <<"C","O","R","E">>,
             <<"M","U","L","T","I","M","O","D","A","L">>,
             <<"A","D","V","A","N","C","E","D">>,
             <<"S","C","H","E","M","A","S">> }

\* The catalog has its fifteen entries after the list was filtered and
\* sorted into another order than the catalog's and the change of the
\* order was logged behind the mount.
C13_Witness ==
  /\ Len(catalog) = 15
  /\ catalog[11].category = <<"S","C","H","E","M","A","S">>
  /\ Len(catalog[10].launch.optional_params) = 2
  /\ sortAlpha
  /\ searchTerm # <<>>
  /\ displayDocs # filteredDocs
  /\ Len(logs) = 2

\* The step puts the records of the updates that were waiting for the
\* render behind the log and exactly one record behind these, from the
\* given layer and of the given status.
appendsOne(layer, status) ==
  /\ Len(logs') = Len(logs) + Len(queue) + 1
  /\ \A i \in DOMAIN logs : logs'[i] = logs[i]
  /\ logs'[Len(logs')].layer = layer
  /\ logs'[Len(logs')].status = status

\* The message of the record the step has put behind the log.
newMessage == logs'[Len(logs')].message

\* C15: the update of the mount, once rendered, has put one INFO record of
\* the layer DATABASE behind the log; selecting an entry appends one ACCESS
\* record of the layer UI whose message holds the entry's title and
\* identifier, and makes the entry the active one; toggling the sort
\* appends one ACCESS record of the layer UI whose message holds the name
\* of the new mode; a copy appends one COPY record of the layer DATABASE
\* whose message holds the active entry's identifier; setting the search
\* term appends no record of its own.
C15_OneRecordPerAction ==
  [][/\ (queue # <<>> /\ queue' = <<>>) =>
          /\ Len(logs') > Len(logs) \/ clearLogs
          /\ Len(logs') > Len(logs) =>
               /\ logs'[Len(logs) + 1].layer = "DATABASE"
               /\ logs'[Len(logs) + 1].status = "INFO"
     /\ \A doc \in CatalogEntries :
          handleDocChange(doc) =>
            /\ appendsOne("UI", "ACCESS")
            /\ includes(newMessage, doc.title)
            /\ includes(newMessage, doc.id)
            /\ activeDoc' = doc
     /\ toggleSort =>
          /\ appendsOne("UI", "ACCESS")
          /\ includes(newMessage, IF sortAlpha' THEN <<"A","-","Z">>
                                   ELSE <<"D","e","f","a","u","l","t">>)
     /\ \A type \in CopyTypes :
          handleCopy(type) =>
            /\ appendsOne("DATABASE", "COPY")
            /\ includes(newMessage, activeDoc.id)
     /\ \A value \in SearchTerms :
          setSearchTerm(value) =>
            /\ Len(logs') = Len(logs) + Len(queue)
            /\ \A i \in DOMAIN logs : logs'[i] = logs[i]]_vars

\* C16: every copy hands the content for its type to the clipboard write,
\* the code snippet of the active entry or the active entry serialized,
\* and puts one COPY record, which names the type, behind the log.
C16_CopyAlwaysLogged ==
  [][\A type \in CopyTypes :
       handleCopy(type) =>
         /\ clipboard' = copyContent(type)
         /\ appendsOne("DATABASE", "COPY")
         /\ includes(newMessage, <<"[">> \o type \o <<"]">>)]_vars

====
